---------------------------- MODULE Spec2Model ----------------------------
(***************************************************************************)
(* A model of the DBAL front end: the Lexer (src/src/Lexer.ts) that turns  *)
(* a text into tokens and the Parser (src/unnamed/part_001) that turns the *)
(* tokens into an AST of tables and columns, run as the pipeline of        *)
(* src/src/index.ts does: lexer.lex(), new Parser(tokens), parser.parse(). *)
(*                                                                         *)
(* A text is a sequence of one-character strings.  A cursor is 0-based as  *)
(* in the source, so the character under cursor p is text[p + 1].  Reading *)
(* past the end of a string or an array gives JavaScript's undefined,      *)
(* modelled by values no character and no token can equal.                 *)
(***************************************************************************)
EXTENDS Integers, Sequences, FiniteSets, TLC

VARIABLES
    schema,        \* ghost: the declarations the input text was written from
    input,         \* Lexer.input
    position,      \* Lexer.position
    tokens,        \* Lexer.tokens
    lexPc,         \* where the Lexer is: idle, scan, returned, thrown
    lexResult,     \* what the latest lex() call gave its caller
    firstResult,   \* history: what the first lex() call on this input gave
    calls,         \* history: the lex() calls made on this input
    lexers,        \* history: the Lexer instances constructed on this input
    p_tokens,      \* Parser.tokens
    p_position,    \* Parser.position
    ast,           \* Parser.ast
    parPc,         \* where the Parser is: none, constructed, top, body,
                   \* constraints, done, error
    nameToken,     \* parseTable: the table's name token
    t_constraints, \* parseTable: const constraints
    columns,       \* parseTable: const columns
    note,          \* parseTable: let note
    column,        \* parseColumn: the column being built while its
                   \* constraint list is read
    c_constraints, \* parseConstraints: the array being filled
    consRet,       \* parseConstraints: who called it: header, column, body
    parResult      \* what parse() gave its caller

lexVars == <<input, position, tokens, lexPc, lexResult, firstResult, calls,
             lexers>>
parVars == <<p_tokens, p_position, ast, parPc, nameToken, t_constraints,
             columns, note, column, c_constraints, consRet, parResult>>
vars == <<schema, lexVars, parVars>>

---------------------------------------------------------------------------
(* Bounds of the checked inputs. *)

\* the most members in the body of the one table of a generated schema
MaxMembers == 3
\* the most tables of a schema built from the fixed small tables
MaxTables == 2
\* the longest text over the small alphabet
MaxLen == 3
\* the most lex() calls made on one input
MaxCalls == 2

---------------------------------------------------------------------------
(* Characters and the values that stand for undefined. *)

\* input[position] past the end of the input: undefined
UndefinedChar == "undefined"
\* token?.value of a missing token, and an unset note: undefined
Undefined == <<"undefined">>
\* tokens[position] past the end of the tokens: undefined
NoToken == [type |-> "undefined", value |-> Undefined]

Letters ==
    {"a","b","c","d","e","f","g","h","i","j","k","l","m",
     "n","o","p","q","r","s","t","u","v","w","x","y","z",
     "A","B","C","D","E","F","G","H","I","J","K","L","M",
     "N","O","P","Q","R","S","T","U","V","W","X","Y","Z"}
Digits == {"0","1","2","3","4","5","6","7","8","9"}
\* the characters /\s/ matches, among those a text here can hold
WhitespaceChars == {" ", "\t", "\n", "\r", "\f"}
SymbolChars == {"{", "}", "[", "]", ":", ",", "<", ">"}
QuoteChars == {"'", "\""}

isLetter(char) == char \in Letters
isDigit(char) == char \in Digits
isWhitespace(char) == char \in WhitespaceChars
isIdentifierChar(char) == isLetter(char) \/ isDigit(char) \/ char = "."

keywords ==
    {<<"T","a","b","l","e">>, <<"N","o","t","e">>, <<"r","e","f">>, <<"n","o","t">>, <<"n","u","l","l">>, <<"u","n","i","q","u","e">>, <<"d","e","f","a","u","l","t">>,
     <<"b","o","o","l">>, <<"s","t","r","i","n","g">>, <<"i","n","t">>, <<"f","l","o","a","t">>}

Token(type, value) == [type |-> type, value |-> value]

---------------------------------------------------------------------------
(* The Lexer. *)

\* Lexer.peek at cursor pos of text
CharAt(text, pos) ==
    IF pos < Len(text) THEN text[pos + 1] ELSE UndefinedChar

\* the characters of text from cursor from up to, not including, cursor to
Slice(text, from, to) ==
    IF to <= Len(text) THEN SubSeq(text, from + 1, to)
                       ELSE SubSeq(text, from + 1, Len(text))

\* tokenizeWhitespace's loop: the cursor where it stops
RECURSIVE WhitespaceEnd(_, _)
WhitespaceEnd(text, pos) ==
    IF isWhitespace(CharAt(text, pos)) THEN WhitespaceEnd(text, pos + 1)
                                       ELSE pos

\* tokenizeIdentifierOrKeyword's loop: the cursor where it stops
RECURSIVE IdentifierEnd(_, _)
IdentifierEnd(text, pos) ==
    IF isIdentifierChar(CharAt(text, pos)) THEN IdentifierEnd(text, pos + 1)
                                           ELSE pos

\* tokenizeString's loop: the cursor where it stops
RECURSIVE StringEnd(_, _, _)
StringEnd(text, pos, quoteType) ==
    IF CharAt(text, pos) # quoteType /\ pos < Len(text)
    THEN StringEnd(text, pos + 1, quoteType)
    ELSE pos

\* each tokenizer gives the cursor after it and the token it pushes
tokenizeWhitespace(text, pos) ==
    LET end == WhitespaceEnd(text, pos)
    IN  [position |-> end, token |-> Token("WHITESPACE", Slice(text, pos, end))]

tokenizeIdentifierOrKeyword(text, pos) ==
    LET end == IdentifierEnd(text, pos)
        identifier == Slice(text, pos, end)
    IN  [position |-> end,
         token |-> IF identifier \in keywords
                   THEN Token("KEYWORD", identifier)
                   ELSE Token("IDENTIFIER", identifier)]

MutStringDropsLastChar(text, pos) ==
    LET end == StringEnd(text, pos + 1, CharAt(text, pos))
    IN  [position |-> end + 1,
         token |-> Token("STRING",
                         IF end >= Len(text) /\ end > pos + 1
                         THEN Slice(text, pos + 1, end - 1)
                         ELSE Slice(text, pos + 1, end))]

tokenizeString(text, pos) ==
    LET quoteType == CharAt(text, pos)
        end == StringEnd(text, pos + 1, quoteType)
    IN  [position |-> end + 1, token |-> Token("STRING", Slice(text, pos + 1, end))]

\* the error tokenize throws: its message is `Unexpected character: ${char}`
LexError(char) == [message |-> "Unexpected character", char |-> char]

NoResult == [status |-> "none"]
Returned(value) == [status |-> "returned", value |-> value]
Thrown(error) == [status |-> "thrown", error |-> error]

MutScanSkipsUnknown(char) ==
    IF isWhitespace(char) THEN "whitespace"
    ELSE IF isLetter(char) THEN "identifier"
    ELSE IF char \in QuoteChars THEN "string"
    ELSE "symbol"

\* the branch tokenize takes on the character under the cursor
Classify(char) ==
    IF isWhitespace(char) THEN "whitespace"
    ELSE IF isLetter(char) THEN "identifier"
    ELSE IF char \in QuoteChars THEN "string"
    ELSE IF char \in SymbolChars THEN "symbol"
    ELSE "unexpected"

\* a call of lex() on a Lexer that is not scanning: tokenize starts from the
\* instance's position and tokens as they are
MutLexCallRewinds ==
    /\ lexPc \in {"idle", "returned", "thrown"}
    /\ parPc = "none"
    /\ calls < MaxCalls
    /\ lexPc' = "scan"
    /\ position' = 0
    /\ calls' = calls + 1
    /\ UNCHANGED <<schema, input, tokens, lexResult, firstResult, lexers,
                   parVars>>

LexCall ==
    /\ lexPc \in {"idle", "returned", "thrown"}
    /\ parPc = "none"
    /\ calls < MaxCalls
    /\ lexPc' = "scan"
    /\ calls' = calls + 1
    /\ UNCHANGED <<schema, input, position, tokens, lexResult, firstResult,
                   lexers, parVars>>

\* what a finished lex() call records: its result, and the first result
Finish(result) ==
    /\ lexResult' = result
    /\ firstResult' = IF firstResult = NoResult THEN result ELSE firstResult

\* one iteration of tokenize's loop
LexStep ==
    /\ lexPc = "scan"
    /\ position < Len(input)
    /\ LET char == CharAt(input, position)
           branch == Classify(char)
           r == CASE branch = "whitespace" -> tokenizeWhitespace(input, position)
                  [] branch = "identifier" -> tokenizeIdentifierOrKeyword(input, position)
                  [] branch = "string" -> tokenizeString(input, position)
                  [] OTHER -> [position |-> position + 1,
                               token |-> Token("SYMBOL", <<char>>)]
       IN  IF branch = "unexpected"
           THEN /\ lexPc' = "thrown"
                /\ Finish(Thrown(LexError(char)))
                /\ UNCHANGED <<position, tokens>>
           ELSE /\ position' = r.position
                /\ tokens' = Append(tokens, r.token)
                /\ UNCHANGED <<lexPc, lexResult, firstResult>>
    /\ UNCHANGED <<schema, input, calls, lexers, parVars>>

\* the loop's exit: tokenize returns this.tokens
LexReturn ==
    /\ lexPc = "scan"
    /\ ~(position < Len(input))
    /\ lexPc' = "returned"
    /\ Finish(Returned(tokens))
    /\ UNCHANGED <<schema, input, position, tokens, calls, lexers, parVars>>

\* new Lexer(input) on the same text: a fresh instance, constructed when a
\* lex() call is still to be made on it
NewLexer ==
    /\ lexPc \in {"returned", "thrown"}
    /\ parPc = "none"
    /\ calls < MaxCalls
    /\ position' = 0
    /\ tokens' = <<>>
    /\ lexPc' = "idle"
    /\ lexResult' = NoResult
    /\ lexers' = lexers + 1
    /\ UNCHANGED <<schema, input, firstResult, calls, parVars>>

---------------------------------------------------------------------------
(* The Parser.  Its state while parse() runs is handled as one record, so  *)
(* that each production is an operator from parser state to parser state.  *)

\* Parser.peek
peek(toks, pos) == IF pos < Len(toks) THEN toks[pos + 1] ELSE NoToken

\* Parser.skipWhitespace: the cursor where its loop stops
RECURSIVE skipWhitespace(_, _)
skipWhitespace(toks, pos) ==
    IF pos < Len(toks) /\ peek(toks, pos).type = "WHITESPACE"
    THEN skipWhitespace(toks, pos + 1)
    ELSE pos

\* JavaScript's truthiness of expect's optional value
Truthy(value) == value # Undefined /\ value # <<>>

\* the error expect throws:
\* `Expected ${type} '${value}', but got ${token?.type} '${token?.value}'`
ExpectError(type, value, token) ==
    [message |-> "Expected", type |-> type, value |-> value,
     gotType |-> token.type, gotValue |-> token.value]

\* the error of the two `Unexpected token` throws
UnexpectedToken(token) ==
    [message |-> "Unexpected token", gotType |-> token.type,
     gotValue |-> token.value]

MutExpectIgnoresType(toks, pos, type, value) ==
    LET p == skipWhitespace(toks, pos)
        token == peek(toks, p)
    IN  [ok |-> ~(token = NoToken
                  \/ (Truthy(value) /\ token.value # value)),
         position |-> p + 1,
         token |-> token,
         error |-> ExpectError(type, value, token)]

\* Parser.expect: whether it returns, the cursor after it, the token it
\* read and the error it throws when it does not return
expect(toks, pos, type, value) ==
    LET p == skipWhitespace(toks, pos)
        token == peek(toks, p)
    IN  [ok |-> ~(token = NoToken
                  \/ token.type # type
                  \/ (Truthy(value) /\ token.value # value)),
         position |-> p + 1,
         token |-> token,
         error |-> ExpectError(type, value, token)]

\* the parser state as a record
Cur ==
    [pc |-> parPc, position |-> p_position, ast |-> ast,
     nameToken |-> nameToken, t_constraints |-> t_constraints,
     columns |-> columns, note |-> note, column |-> column,
     c_constraints |-> c_constraints, consRet |-> consRet,
     result |-> parResult]

\* the variables take the values of parser state s
Become(s) ==
    /\ parPc' = s.pc
    /\ p_position' = s.position
    /\ ast' = s.ast
    /\ nameToken' = s.nameToken
    /\ t_constraints' = s.t_constraints
    /\ columns' = s.columns
    /\ note' = s.note
    /\ column' = s.column
    /\ c_constraints' = s.c_constraints
    /\ consRet' = s.consRet
    /\ parResult' = s.result

\* a throw at cursor pos: parse() gives its caller the error and no AST
Fail(s, pos, error) ==
    [s EXCEPT !.pc = "error", !.position = pos, !.result = Thrown(error)]

\* parse() returns this.ast
ReturnAst(s, pos) ==
    [s EXCEPT !.pc = "done", !.position = pos, !.result = Returned(s.ast)]

TableNode(name, cols, nt) ==
    [type |-> "Table", name |-> name, columns |-> cols, note |-> nt]
ColumnNode(name, dataType, constraints, nt) ==
    [type |-> "Column", name |-> name, dataType |-> dataType,
     constraints |-> constraints, note |-> nt]
NoColumn == [name |-> Undefined, dataType |-> Undefined]

\* parseConstraints up to its loop: expect "[", then fill `into`
EnterConstraints(s, pos, into, ret) ==
    LET e == expect(p_tokens, pos, "SYMBOL", <<"[">>)
    IN  IF e.ok
        THEN [s EXCEPT !.pc = "constraints", !.position = e.position,
                       !.c_constraints = into, !.consRet = ret]
        ELSE Fail(s, e.position, e.error)

\* parseTable from expect "{" to its loop
TableBodyStart(s, pos) ==
    LET e == expect(p_tokens, pos, "SYMBOL", <<"{">>)
    IN  IF e.ok
        THEN [s EXCEPT !.pc = "body", !.position = e.position,
                       !.columns = <<>>, !.note = Undefined]
        ELSE Fail(s, e.position, e.error)

\* parseTable up to its first call of parseConstraints or to its loop
TableHeader(s, pos) ==
    LET e1 == expect(p_tokens, skipWhitespace(p_tokens, pos), "KEYWORD", <<"T","a","b","l","e">>)
        e2 == expect(p_tokens, e1.position, "IDENTIFIER", Undefined)
        p == skipWhitespace(p_tokens, e2.position)
        s1 == [s EXCEPT !.nameToken = e2.token, !.t_constraints = <<>>]
    IN  IF ~e1.ok THEN Fail(s, e1.position, e1.error)
        ELSE IF ~e2.ok THEN Fail(s, e2.position, e2.error)
        ELSE IF peek(p_tokens, p).value = <<"[">>
             THEN EnterConstraints(s1, p, <<>>, "header")
             ELSE TableBodyStart(s1, p)

\* parseTable after its loop: expect "}", and parse pushes the Table node
TableEnd(s, pos) ==
    LET e == expect(p_tokens, pos, "SYMBOL", <<"}">>)
    IN  IF e.ok
        THEN [s EXCEPT !.pc = "top", !.position = e.position,
                       !.ast = [tables |-> Append(s.ast.tables,
                                    TableNode(s.nameToken.value, s.columns,
                                              s.note))]]
        ELSE Fail(s, e.position, e.error)

MutColumnTailPrepends(s, pos, constraints) ==
    LET tok == peek(p_tokens, pos)
        inline == tok.type = "KEYWORD" /\ tok.value = <<"n","o","t","e">>
        e1 == expect(p_tokens, pos + 1, "SYMBOL", <<":">>)
        e2 == expect(p_tokens, e1.position, "STRING", Undefined)
        node(nt) == ColumnNode(s.column.name, s.column.dataType, constraints, nt)
    IN  IF ~inline
        THEN [s EXCEPT !.pc = "body", !.position = pos,
                       !.columns = <<node(Undefined)>> \o s.columns]
        ELSE IF ~e1.ok THEN Fail(s, e1.position, e1.error)
        ELSE IF ~e2.ok THEN Fail(s, e2.position, e2.error)
        ELSE [s EXCEPT !.pc = "body", !.position = e2.position,
                       !.columns = <<node(e2.token.value)>> \o s.columns]

\* parseColumn from its check for an inline note to its return, and
\* parseTable's push of the Column node
ColumnTail(s, pos, constraints) ==
    LET tok == peek(p_tokens, pos)
        inline == tok.type = "KEYWORD" /\ tok.value = <<"n","o","t","e">>
        e1 == expect(p_tokens, pos + 1, "SYMBOL", <<":">>)
        e2 == expect(p_tokens, e1.position, "STRING", Undefined)
        node(nt) == ColumnNode(s.column.name, s.column.dataType, constraints, nt)
    IN  IF ~inline
        THEN [s EXCEPT !.pc = "body", !.position = pos,
                       !.columns = Append(s.columns, node(Undefined))]
        ELSE IF ~e1.ok THEN Fail(s, e1.position, e1.error)
        ELSE IF ~e2.ok THEN Fail(s, e2.position, e2.error)
        ELSE [s EXCEPT !.pc = "body", !.position = e2.position,
                       !.columns = Append(s.columns, node(e2.token.value))]

\* parseColumn up to its call of parseConstraints or to its inline note
parseColumn(s, pos) ==
    LET e1 == expect(p_tokens, skipWhitespace(p_tokens, pos), "IDENTIFIER", Undefined)
        e2 == expect(p_tokens, e1.position, "KEYWORD", Undefined)
        s1 == [s EXCEPT !.column = [name |-> e1.token.value,
                                    dataType |-> e2.token.value]]
    IN  IF ~e1.ok THEN Fail(s, e1.position, e1.error)
        ELSE IF ~e2.ok THEN Fail(s, e2.position, e2.error)
        ELSE IF peek(p_tokens, e2.position).value = <<"[">>
             THEN EnterConstraints(s1, e2.position, <<>>, "column")
             ELSE ColumnTail(s1, e2.position, <<>>)

MutNoteKeepsFirst(s, pos) ==
    LET e1 == expect(p_tokens, skipWhitespace(p_tokens, pos), "KEYWORD", <<"N","o","t","e">>)
        e2 == expect(p_tokens, e1.position, "SYMBOL", <<":">>)
        e3 == expect(p_tokens, e2.position, "STRING", Undefined)
    IN  IF ~e1.ok THEN Fail(s, e1.position, e1.error)
        ELSE IF ~e2.ok THEN Fail(s, e2.position, e2.error)
        ELSE IF ~e3.ok THEN Fail(s, e3.position, e3.error)
        ELSE [s EXCEPT !.pc = "body", !.position = e3.position,
                       !.note = IF s.note = Undefined THEN e3.token.value
                                                      ELSE s.note]

\* parseNote, and parseTable's assignment of what it returns to note
parseNote(s, pos) ==
    LET e1 == expect(p_tokens, skipWhitespace(p_tokens, pos), "KEYWORD", <<"N","o","t","e">>)
        e2 == expect(p_tokens, e1.position, "SYMBOL", <<":">>)
        e3 == expect(p_tokens, e2.position, "STRING", Undefined)
    IN  IF ~e1.ok THEN Fail(s, e1.position, e1.error)
        ELSE IF ~e2.ok THEN Fail(s, e2.position, e2.error)
        ELSE IF ~e3.ok THEN Fail(s, e3.position, e3.error)
        ELSE [s EXCEPT !.pc = "body", !.position = e3.position,
                       !.note = e3.token.value]

\* one iteration of parseTable's loop, and what follows the loop once its
\* condition fails or the iteration breaks
TableBodyStep(s) ==
    LET head == peek(p_tokens, s.position)
        p == skipWhitespace(p_tokens, s.position)
        tok == peek(p_tokens, p)
    IN  IF ~(head # NoToken /\ head.value # <<"}">>)
        THEN TableEnd(s, s.position)
        ELSE IF tok.type = "IDENTIFIER" THEN parseColumn(s, p)
        ELSE IF tok.type = "KEYWORD" /\ tok.value = <<"N","o","t","e">> THEN parseNote(s, p)
        ELSE IF tok.type = "SYMBOL" /\ tok.value = <<"[">>
             THEN EnterConstraints(s, p, s.t_constraints, "body")
        ELSE IF tok.value = <<"}">> THEN TableEnd(s, p)
        ELSE Fail(s, p, UnexpectedToken(tok))

\* what parseConstraints' caller does once it returns at cursor pos
ConstraintsReturn(s, pos) ==
    CASE s.consRet = "header" ->
            TableBodyStart([s EXCEPT !.t_constraints = s.c_constraints], pos)
      [] s.consRet = "column" -> ColumnTail(s, pos, s.c_constraints)
      [] OTHER ->
            [s EXCEPT !.pc = "body", !.position = pos,
                      !.t_constraints = s.c_constraints]

MutConstraintsNoAdvance(s) ==
    LET head == peek(p_tokens, s.position)
        after == s.position + 1
        e == expect(p_tokens, s.position, "SYMBOL", <<"]">>)
    IN  IF head # NoToken /\ head.value # <<"]">>
        THEN [s EXCEPT !.c_constraints = Append(s.c_constraints, head.value),
                       !.position = IF peek(p_tokens, after).value = <<",">>
                                    THEN after + 1 ELSE s.position]
        ELSE IF e.ok THEN ConstraintsReturn(s, e.position)
        ELSE Fail(s, e.position, e.error)

\* one iteration of parseConstraints' loop, and what follows the loop
ConstraintsStep(s) ==
    LET head == peek(p_tokens, s.position)
        after == s.position + 1
        e == expect(p_tokens, s.position, "SYMBOL", <<"]">>)
    IN  IF head # NoToken /\ head.value # <<"]">>
        THEN [s EXCEPT !.c_constraints = Append(s.c_constraints, head.value),
                       !.position = IF peek(p_tokens, after).value = <<",">>
                                    THEN after + 1 ELSE after]
        ELSE IF e.ok THEN ConstraintsReturn(s, e.position)
        ELSE Fail(s, e.position, e.error)

\* one iteration of parse's loop up to parseTable's loop, or its return
TopStep(s) ==
    LET p == skipWhitespace(p_tokens, s.position)
        tok == peek(p_tokens, p)
    IN  IF ~(s.position < Len(p_tokens)) THEN ReturnAst(s, s.position)
        ELSE IF tok.type = "KEYWORD" /\ tok.value = <<"T","a","b","l","e">> THEN TableHeader(s, p)
        ELSE IF tok = NoToken THEN ReturnAst(s, p)
        ELSE Fail(s, p, UnexpectedToken(tok))

\* new Parser(tokens) on the tokens lex() returned, as the pipeline does:
\* one Lexer, one lex() call, then the Parser
NewParser ==
    /\ lexPc = "returned"
    /\ parPc = "none"
    /\ calls = 1
    /\ p_tokens' = lexResult.value
    /\ p_position' = 0
    /\ ast' = [tables |-> <<>>]
    /\ parPc' = "constructed"
    /\ UNCHANGED <<schema, lexVars, nameToken, t_constraints, columns, note,
                   column, c_constraints, consRet, parResult>>

\* the call of parse()
ParseCall ==
    /\ parPc = "constructed"
    /\ parPc' = "top"
    /\ UNCHANGED <<schema, lexVars, p_tokens, p_position, ast, nameToken,
                   t_constraints, columns, note, column, c_constraints,
                   consRet, parResult>>

ParseTop ==
    /\ parPc = "top"
    /\ Become(TopStep(Cur))
    /\ UNCHANGED <<schema, lexVars, p_tokens>>

ParseTableBody ==
    /\ parPc = "body"
    /\ Become(TableBodyStep(Cur))
    /\ UNCHANGED <<schema, lexVars, p_tokens>>

ParseConstraints ==
    /\ parPc = "constraints"
    /\ Become(ConstraintsStep(Cur))
    /\ UNCHANGED <<schema, lexVars, p_tokens>>

---------------------------------------------------------------------------
(* The inputs.  A schema is a sequence of table declarations, each a name, *)
(* an optional header constraint list and a sequence of members; its text  *)
(* is written out by Render.  The other inputs are raw texts.              *)

\* the members a table body is written from
ValidMembers ==
    {"col_id_int", "col_x_string", "col_constraints", "col_note", "note_a",
     "note_b"}
\* members only the small tables have
OtherMembers == {"col_tight", "constraints"}
\* a column whose type is no keyword: outside the grammar
BadMembers == {"col_bad"}

\* the text of a member, with the whitespace that separates it from what
\* stands before it:
\*   col_id_int       id int               col_note     id int note: 'n'
\*   col_x_string     x string             note_a       Note: 'a'
\*   col_constraints  id string [not null, unique]
\*   col_tight        x int[pk,unique]     note_b       Note: "b c"
\*   constraints      [pk]                 col_bad      id foo
MemberText(m) ==
    CASE m = "col_id_int" -> <<" ","i","d"," ","i","n","t">>
      [] m = "col_x_string" -> <<"\n"," "," ","x"," ","s","t","r","i","n","g">>
      [] m = "col_constraints" -> <<" ","i","d"," ","s","t","r","i","n","g"," ","[","n","o","t"," ","n","u","l","l",","," ","u","n","i","q","u","e","]">>
      [] m = "col_tight" -> <<" ","x"," ","i","n","t","[","p","k",",","u","n","i","q","u","e","]">>
      [] m = "col_note" -> <<" ","i","d"," ","i","n","t"," ","n","o","t","e",":"," ","'","n","'">>
      [] m = "note_a" -> <<" ","N","o","t","e",":"," ","'","a","'">>
      [] m = "note_b" -> <<"\n"," "," ","N","o","t","e",":"," ","\"","b"," ","c","\"">>
      [] m = "constraints" -> <<" ","[","p","k","]">>
      [] m = "col_bad" -> <<" ","i","d"," ","f","o","o">>

\* what a member declares
MemberKind(m) ==
    IF m \in {"note_a", "note_b"} THEN "note"
    ELSE IF m = "constraints" THEN "constraints"
    ELSE "column"
MemberNote(m) ==
    CASE m = "note_a" -> <<"a">>
      [] m = "note_b" -> <<"b"," ","c">>
      [] m = "col_note" -> <<"n">>
      [] OTHER -> Undefined
\* the Column node a column member declares
MemberColumn(m) ==
    CASE m = "col_id_int" -> ColumnNode(<<"i","d">>, <<"i","n","t">>, <<>>, Undefined)
      [] m = "col_x_string" -> ColumnNode(<<"x">>, <<"s","t","r","i","n","g">>, <<>>, Undefined)
      [] m = "col_constraints" ->
            ColumnNode(<<"i","d">>, <<"s","t","r","i","n","g">>, <<<<"n","o","t">>, <<"n","u","l","l">>, <<"u","n","i","q","u","e">>>>, Undefined)
      [] m = "col_tight" -> ColumnNode(<<"x">>, <<"i","n","t">>, <<<<"p","k">>, <<"u","n","i","q","u","e">>>>, Undefined)
      [] m = "col_note" -> ColumnNode(<<"i","d">>, <<"i","n","t">>, <<>>, <<"n">>)
      [] m = "col_bad" -> ColumnNode(<<"i","d">>, <<"f","o","o">>, <<>>, Undefined)

TableDecl(name, header, members) ==
    [name |-> name, header |-> header, members |-> members]

RECURSIVE Concat(_)
Concat(seqs) == IF seqs = <<>> THEN <<>> ELSE Head(seqs) \o Concat(Tail(seqs))

RenderTable(t) ==
    <<"T","a","b","l","e"," ">> \o t.name \o (IF t.header THEN <<" ","[","p","k","]">> ELSE <<>>) \o <<" ","{">>
      \o Concat([i \in 1..Len(t.members) |-> MemberText(t.members[i])])
      \o <<"\n","}">>

Render(s) ==
    Concat([i \in 1..Len(s.tables) |->
                (IF i = 1 THEN <<>> ELSE <<"\n">>) \o RenderTable(s.tables[i])])

SeqsUpTo(S, n) == UNION {[1..k -> S] : k \in 0..n}

\* schemas of one table with up to MaxMembers members
OneTableSchemas ==
    {[kind |-> "schema", tables |-> <<TableDecl(<<"t">>, FALSE, ms)>>] :
        ms \in SeqsUpTo(ValidMembers, MaxMembers)}

SmallTables ==
    {TableDecl(<<"t">>, FALSE, <<"col_id_int">>),
     TableDecl(<<"s",".","u">>, TRUE, <<"note_a", "col_tight", "constraints">>),
     TableDecl(<<"w">>, FALSE, <<"col_note">>),
     TableDecl(<<"v">>, FALSE, <<"col_bad">>)}

\* schemas of up to MaxTables of the small tables
ManyTableSchemas ==
    {[kind |-> "schema", tables |-> ts] : ts \in SeqsUpTo(SmallTables, MaxTables)}

Schemas == OneTableSchemas \cup ManyTableSchemas

\* raw texts: every text over a small alphabet up to MaxLen characters, and
\* every prefix of two sample texts
Alphabet == {"a", " ", "'", "\"", "@", "{", "1", "_"}
\* Table t [pk] { id string [not null, unique] Note: 'ab' }
\* Table t{id int[ref: > u.id]}Table u{x bool note:"c" id foo}
Samples ==
    {<<"T","a","b","l","e"," ","t"," ","[","p","k","]"," ","{"," ","i","d"," ","s","t","r","i","n","g"," ","[","n","o","t"," ","n","u","l","l",","," ","u","n","i","q","u","e","]"," ","N","o","t","e",":"," ","'","a","b","'"," ","}">>,
     <<"T","a","b","l","e"," ","t","{","i","d"," ","i","n","t","[","r","e","f",":"," ",">"," ","u",".","i","d","]","}","T","a","b","l","e"," ","u","{","x"," ","b","o","o","l"," ","n","o","t","e",":","\"","c","\""," ","i","d"," ","f","o","o","}">>}
Texts ==
    SeqsUpTo(Alphabet, MaxLen)
      \cup UNION {{SubSeq(s, 1, n) : n \in 0..Len(s)} : s \in Samples}
RawText == [kind |-> "text", tables |-> <<>>]

---------------------------------------------------------------------------
(* The pipeline. *)

Init ==
    /\ \/ schema \in Schemas /\ input = Render(schema)
       \/ schema = RawText /\ input \in Texts
    /\ position = 0
    /\ tokens = <<>>
    /\ lexPc = "idle"
    /\ lexResult = NoResult
    /\ firstResult = NoResult
    /\ calls = 0
    /\ lexers = 1
    /\ p_tokens = <<>>
    /\ p_position = 0
    /\ ast = [tables |-> <<>>]
    /\ parPc = "none"
    /\ nameToken = NoToken
    /\ t_constraints = <<>>
    /\ columns = <<>>
    /\ note = Undefined
    /\ column = NoColumn
    /\ c_constraints = <<>>
    /\ consRet = "none"
    /\ parResult = NoResult

Next ==
    \/ LexCall
    \/ LexStep
    \/ LexReturn
    \/ NewLexer
    \/ NewParser
    \/ ParseCall
    \/ ParseTop
    \/ ParseTableBody
    \/ ParseConstraints

Spec == Init /\ [][Next]_vars

---------------------------------------------------------------------------
(* What a schema declares: the AST its text is meant to give. *)

IsSchema == schema.kind = "schema"
AllMembers == UNION {{t.members[i] : i \in 1..Len(t.members)} :
                        t \in {schema.tables[k] : k \in 1..Len(schema.tables)}}
IsColumn(m) == MemberKind(m) = "column"
IsNote(m) == MemberKind(m) = "note"

RECURSIVE DeclaredColumns(_)
DeclaredColumns(ms) ==
    IF ms = <<>> THEN <<>>
    ELSE (IF IsColumn(Head(ms)) THEN <<MemberColumn(Head(ms))>> ELSE <<>>)
            \o DeclaredColumns(Tail(ms))

\* the text of the last Note member, if any
RECURSIVE DeclaredNote(_)
DeclaredNote(ms) ==
    IF ms = <<>> THEN Undefined
    ELSE IF IsNote(ms[Len(ms)]) THEN MemberNote(ms[Len(ms)])
    ELSE DeclaredNote(SubSeq(ms, 1, Len(ms) - 1))

DeclaredTable(t) ==
    TableNode(t.name, DeclaredColumns(t.members), DeclaredNote(t.members))
DeclaredAst ==
    [tables |-> [i \in 1..Len(schema.tables) |-> DeclaredTable(schema.tables[i])]]

ParseFinished == parPc \in {"done", "error"}
LexFinished == lexPc \in {"returned", "thrown"}
\* a lex() call has ended and no Parser has been given its tokens yet
LexJustFinished == LexFinished /\ parPc = "none"

\* the AST parse() returned has the declared tables' columns, one for one
SameShape(tables) ==
    /\ Len(tables) = Len(schema.tables)
    /\ \A i \in 1..Len(tables) :
          Len(tables[i].columns) = Len(DeclaredAst.tables[i].columns)

---------------------------------------------------------------------------
(* C1 *)

\* the input is in the grammar and every column is a name and a type keyword
\* with or without a constraint list, none with an inline note
ColumnsWithoutInlineNote ==
    /\ IsSchema
    /\ AllMembers \cap (BadMembers \cup {"col_note"}) = {}

\* C1: a column written as name, type keyword and a bracketed constraint
\* list parses to a Column whose constraints are the texts of the constraint
\* tokens between the brackets in source order, with no comma and no
\* whitespace among them.
C1_ConstraintOrderPreserved ==
    (ParseFinished /\ ColumnsWithoutInlineNote) =>
        /\ parPc = "done"
        /\ SameShape(parResult.value.tables)
        /\ \A i \in 1..Len(schema.tables) :
              \A j \in 1..Len(DeclaredAst.tables[i].columns) :
                 parResult.value.tables[i].columns[j].constraints
                    = DeclaredAst.tables[i].columns[j].constraints

---------------------------------------------------------------------------
(* C2 *)

InGrammar == IsSchema /\ AllMembers \cap BadMembers = {}

\* C2: every input that follows the grammar sketch parses without error and
\* the AST has one table per Table declaration, in source order.
C2_GrammarInputParses ==
    (ParseFinished /\ InGrammar) =>
        /\ parPc = "done"
        /\ Len(parResult.value.tables) = Len(schema.tables)
        /\ \A i \in 1..Len(schema.tables) :
              parResult.value.tables[i].name = schema.tables[i].name

---------------------------------------------------------------------------
(* C3 *)

\* C3: a column followed by an inline note (note, a colon, a string literal)
\* parses and gives a Column whose note is the string literal's text.
C3_InlineNoteParses ==
    (ParseFinished /\ InGrammar /\ "col_note" \in AllMembers) =>
        /\ parPc = "done"
        /\ SameShape(parResult.value.tables)
        /\ \A i \in 1..Len(schema.tables) :
              \A j \in 1..Len(DeclaredAst.tables[i].columns) :
                 parResult.value.tables[i].columns[j].note
                    = DeclaredAst.tables[i].columns[j].note

---------------------------------------------------------------------------
(* C4 *)

PlainColumnsOnly ==
    /\ IsSchema
    /\ schema.tables # <<>>
    /\ AllMembers \subseteq {"col_id_int", "col_x_string"}

\* C4: a table whose body is only columns of the form name type-keyword
\* parses to a Table with the declared name, no note and one Column per
\* declaration in source order, each with its name and dataType, no
\* constraints and no note.
C4_PlainColumnsRoundTrip ==
    (ParseFinished /\ PlainColumnsOnly) =>
        /\ parResult = Returned(DeclaredAst)
        /\ \A i \in 1..Len(schema.tables) :
              /\ parResult.value.tables[i].note = Undefined
              /\ \A j \in 1..Len(parResult.value.tables[i].columns) :
                    /\ parResult.value.tables[i].columns[j].constraints = <<>>
                    /\ parResult.value.tables[i].columns[j].note = Undefined

\* a table of two different plain columns has been parsed
C4_Witness ==
    /\ PlainColumnsOnly
    /\ parPc = "done"
    /\ \E i \in 1..Len(schema.tables) :
          /\ Len(schema.tables[i].members) >= 2
          /\ schema.tables[i].members[1] # schema.tables[i].members[2]
          /\ Len(parResult.value.tables[i].columns) >= 2

---------------------------------------------------------------------------
(* C5 *)

NoteCount(t) == Cardinality({i \in 1..Len(t.members) : IsNote(t.members[i])})

\* some table has two or more Note members
SeveralNotes ==
    /\ ColumnsWithoutInlineNote
    /\ \E i \in 1..Len(schema.tables) : NoteCount(schema.tables[i]) >= 2

\* C5: when a table body has two or more Note members, parsing succeeds and
\* the Table's note is the text of the last Note member in source order,
\* wherever the columns stand among the notes.
C5_LastNoteWins ==
    (ParseFinished /\ SeveralNotes) =>
        /\ parPc = "done"
        /\ Len(parResult.value.tables) = Len(schema.tables)
        /\ \A i \in 1..Len(schema.tables) :
              parResult.value.tables[i].note = DeclaredNote(schema.tables[i].members)

\* two Note members of different texts with a column between them have
\* been parsed
C5_Witness ==
    /\ SeveralNotes
    /\ parPc = "done"
    /\ \E i \in 1..Len(schema.tables) :
          LET ms == schema.tables[i].members
          IN  /\ Len(ms) = 3
              /\ IsNote(ms[1]) /\ IsColumn(ms[2]) /\ IsNote(ms[3])
              /\ ms[1] # ms[3]

---------------------------------------------------------------------------
(* C6 *)

\* the place (1-based) of the opening quote of the string literal that is
\* open after text, or 0 when none is, starting from `open`
RECURSIVE QuoteScan(_, _, _)
QuoteScan(text, i, open) ==
    IF i > Len(text) THEN open
    ELSE IF open = 0
         THEN QuoteScan(text, i + 1, IF text[i] \in QuoteChars THEN i ELSE 0)
         ELSE QuoteScan(text, i + 1, IF text[i] = text[open] THEN 0 ELSE open)
OpenQuote(text) == QuoteScan(text, 1, 0)

\* C6: an input whose last opening quote has no matching closing quote
\* before the end is accepted: tokenize raises no error for it, ends, and
\* its last token is a StringLiteral of every character after that quote.
C6_UnterminatedStringAccepted ==
    (LexJustFinished /\ OpenQuote(input) > 0) =>
        IF lexPc = "returned"
        THEN /\ lexResult = Returned(tokens)
             /\ tokens # <<>>
             /\ tokens[Len(tokens)]
                   = Token("STRING",
                           SubSeq(input, OpenQuote(input) + 1, Len(input)))
        ELSE position + 1 < OpenQuote(input)

\* an unterminated literal of at least one character has been tokenized
C6_Witness ==
    /\ lexPc = "returned"
    /\ parPc = "none"
    /\ OpenQuote(input) > 0
    /\ OpenQuote(input) < Len(input)
    /\ tokens[Len(tokens)].type = "STRING"

---------------------------------------------------------------------------
(* C7 *)

\* cursor p of text is at a token start outside any string literal, on a
\* character that is no whitespace, letter, quote or structural symbol
InIdentifier(text, p) ==
    \E k \in 0..(p - 1) :
       /\ isLetter(text[k + 1])
       /\ \A j \in k..p : isIdentifierChar(text[j + 1])
UnexpectedAt(text, p) ==
    /\ text[p + 1] \notin
          (WhitespaceChars \cup Letters \cup QuoteChars \cup SymbolChars)
    /\ OpenQuote(SubSeq(text, 1, p)) = 0
    /\ ~InIdentifier(text, p)
UnexpectedCursors == {p \in 0..(Len(input) - 1) : UnexpectedAt(input, p)}
Least(S) == CHOOSE x \in S : \A y \in S : x <= y

\* C7 as stated: tokenize fails at the first such character with an error
\* that identifies the character and its position in the input.
C7_ErrorNamesCharacterAndPosition ==
    (LexJustFinished /\ UnexpectedCursors # {}) =>
        /\ lexPc = "thrown"
        /\ lexResult.error.char = input[Least(UnexpectedCursors) + 1]
        /\ "position" \in DOMAIN lexResult.error

\* C7 as amended: tokenize fails at the first such character with an error
\* that identifies the character; the scan stops there and no token
\* sequence is returned, and without such a character tokenize returns.
C7_FirstUnexpectedCharacterIsFatal ==
    /\ lexPc = "thrown" => (lexResult.status = "thrown" /\ parPc = "none")
    /\ LexJustFinished =>
          IF UnexpectedCursors = {}
          THEN lexPc = "returned"
          ELSE /\ lexPc = "thrown"
               /\ position = Least(UnexpectedCursors)
               /\ lexResult = Thrown(LexError(input[position + 1]))

\* tokenize has failed on a character after pushing tokens
C7_Witness ==
    /\ lexPc = "thrown"
    /\ tokens # <<>>
    /\ position = Least(UnexpectedCursors)

---------------------------------------------------------------------------
(* C8 *)

\* the input's only departure from the grammar is a column whose type is an
\* Identifier
TypeIsIdentifier ==
    /\ IsSchema
    /\ "col_bad" \in AllMembers
    /\ "col_note" \notin AllMembers

\* C8: a column whose name is followed by an Identifier makes parse fail
\* with a syntax error naming the expected kind, Keyword; the parse is
\* aborted and no AST, not even the tables parsed before, is returned.
C8_IdentifierAsTypeFails ==
    TypeIsIdentifier =>
        /\ parResult.status # "returned"
        /\ parPc # "done"
        /\ ParseFinished =>
              /\ parResult.status = "thrown"
              /\ parResult.error.message = "Expected"
              /\ parResult.error.type = "KEYWORD"
              /\ parResult.error.gotType = "IDENTIFIER"
              /\ parResult.error.gotValue = <<"f","o","o">>

\* parse has failed on such a column after a whole table was parsed
C8_Witness ==
    /\ TypeIsIdentifier
    /\ parPc = "error"
    /\ Len(ast.tables) >= 1

---------------------------------------------------------------------------
(* C9 *)

\* C9: tokenizing the same input again gives the same token sequence, on a
\* fresh Lexer and on the same Lexer, whose second lex() call appends no
\* token.
C9_LexIdempotent ==
    /\ lexResult.status # "none" => lexResult = firstResult
    /\ (LexFinished /\ firstResult.status = "returned") =>
          tokens = firstResult.value

\* a second lex() call on the same Lexer has returned a non-empty sequence
C9_Witness ==
    /\ calls = 2
    /\ lexers = 1
    /\ lexPc = "returned"
    /\ Len(lexResult.value) >= 2

---------------------------------------------------------------------------
(* C10 *)

LexRunning == lexPc = "scan"
ParseRunning == parPc \in {"top", "body", "constraints"}

\* C10: every iteration of the lexer's scan loop and of the parser's
\* top-level, table-body and constraint-list loops moves its cursor forward
\* or ends the call by a return or an error, and no cursor moves backward
\* within a call; the cursors stay within one past the end of what they
\* read, also on a premature end of input, so every call of lex() and
\* parse() ends after at most that many iterations.
C10_Terminates ==
    /\ [][/\ LexRunning => (position' > position \/ LexFinished')
          /\ lexPc' = "scan" => position' >= position
          /\ ParseRunning => (p_position' > p_position \/ ParseFinished')
          /\ p_position' >= p_position]_vars
    /\ [](position <= Len(input) + 1 /\ p_position <= Len(p_tokens) + 1)

\* parse has failed at the end of its tokens inside an unclosed constraint
\* list
C10_Witness ==
    /\ parPc = "error"
    /\ consRet # "none"
    /\ p_position > Len(p_tokens)
    /\ parResult.error.gotType = "undefined"
=============================================================================
